---- MODULE Spec2Model ----
(***************************************************************************)
(* A model of src/server.js, the socket.io relay of the Valencia map: the  *)
(* per-socket authentication state, the in-memory collections tokens and   *)
(* moveProposals, the move_proposals table of the record store, and the    *)
(* event handlers.  An async handler runs up to its first await in one     *)
(* step and is then a continuation in inflight; the event loop resumes     *)
(* continuations in any order, one at a time.                              *)
(***************************************************************************)
EXTENDS Integers, Sequences, FiniteSets, Bags, TLC

\* ------------------------------------------------------------------ bounds

NumSessions == 2
MaxTokenId == 2
MaxProposalId == 2
MaxInFlight == 2
MaxFactionId == 2

\* ------------------------------------------------------------------ inputs

Sessions == 1..NumSessions

Absent == "absent"
NullRole == "null"

\* data.role of authenticate and set_role
RoleInputs == {"dm", "player", "spectator"}
\* data.password of authenticate; process.env.DM_PASSWORD is DmPassword
DmPassword == "secret"
PasswordInputs == {"secret", "guess"}

\* (x, y) pairs a client sends
XY == {<<0, 0>>, <<5, 7>>}
NameInputs == {Absent, "Orc"}
\* data.visible_to_players, a boolean of JSON or no field at all
VisibleInputs == {Absent, "true", "false"}

\* factionData.faction_name, factionData.is_visible, factionData.current_hp
FactionNames == {"Iron", "Crystal"}
\* factionData.is_visible: a boolean of JSON, no field at all, or the number 1
IsVisibleInputs == {Absent, "true", "false", "1"}
HpInputs == {Absent, "85"}
\* factionsConfig of movable_factions:update
ConfigInputs == {<<>>, <<"Iron">>}

\* how an awaited record store call on the tokens table ends
DbOutcomes == {"ok", "error", "throw"}

VARIABLES
    session,          \* socket.isAuthenticated, socket.userRole per socket
    tokens,           \* let tokens = []
    tokenIdCounter,   \* let tokenIdCounter = 1
    moveProposals,    \* let moveProposals = []
    dbProposals,      \* rows of the move_proposals table
    dbProposalSeq,    \* next value of move_proposals.id (SERIAL)
    inflight,         \* the suspended async handlers, a bag of continuations
    out,              \* events emitted by the last step, in order
    lastAct,          \* the handler step that was last taken
    presented,        \* history: the socket has sent the DM password with role dm
    assigned,         \* history: the ids token:place has given to tokens, in
                      \* this run of the server and in the runs before it
    factionStats,     \* let factionStats = []
    factionStatsIdCounter,  \* let factionStatsIdCounter = 1
    movableFactionsConfig,  \* let movableFactionsConfig = []
    held              \* the names of the factions each socket has been sent and
                      \* not been told to drop, while its role was player

tokVars == <<tokens, tokenIdCounter, assigned>>
propVars == <<moveProposals, dbProposals, dbProposalSeq>>
facData == <<factionStats, factionStatsIdCounter, movableFactionsConfig>>
facVars == <<factionStats, factionStatsIdCounter, movableFactionsConfig, held>>

vars == <<session, tokens, tokenIdCounter, assigned, moveProposals, dbProposals,
          dbProposalSeq, inflight, out, lastAct, presented, factionStats,
          factionStatsIdCounter, movableFactionsConfig, held>>

\* ------------------------------------------------------------------ helpers

\* isDM without the test of the role
isDM_anyRole(s) == session[s].isAuthenticated

isDM(s) == session[s].isAuthenticated /\ session[s].userRole = "dm"

isAuthenticated(s) == session[s].isAuthenticated

Emit(to, ev, arg) == [to |-> to, ev |-> ev, arg |-> arg]

\* io.sockets.sockets.forEach(callback) over the first n sockets, in the order
\* they connected: msgs[c] is what the callback emits at socket c, throws[c]
\* says that it throws there, which ends the loop
RECURSIVE ForEach(_, _, _)
ForEach(n, throws, msgs) ==
    IF n = 0 THEN [out |-> <<>>, thrown |-> FALSE]
    ELSE LET r == ForEach(n - 1, throws, msgs)
         IN  IF r.thrown THEN r
             ELSE IF throws[n] THEN [out |-> r.out, thrown |-> TRUE]
             ELSE [out |-> r.out \o msgs[n], thrown |-> FALSE]

\* io.emit(ev, arg): every connected socket
IoEmit(ev, arg) ==
    ForEach(NumSessions, [s \in Sessions |-> FALSE],
            [s \in Sessions |-> <<Emit(s, ev, arg)>>]).out

\* the value of reading past the end of an array
Undefined == [undefined |-> TRUE]

IsDefined(v) == "undefined" \notin DOMAIN v

\* tokens.findIndex(t => t.id === id), 0 for -1
RECURSIVE FindIndexFrom(_, _, _)
FindIndexFrom(seq, id, i) ==
    IF i > Len(seq) THEN 0
    ELSE IF seq[i].id = id THEN i
    ELSE FindIndexFrom(seq, id, i + 1)

TokenIndex(id) == FindIndexFrom(tokens, id, 1)

\* the model holds at most MaxInFlight suspended handlers
CanSuspend == BagCardinality(inflight) < MaxInFlight

Suspend(fl, c) == fl (+) SetToBag({c})

Resumed(fl, c) == fl (-) SetToBag({c})

RECURSIVE SumCopies(_, _)
SumCopies(B, S) ==
    IF S = {} THEN 0
    ELSE LET c == CHOOSE e \in S : TRUE
         IN  B[c] + SumCopies(B, S \ {c})

\* the bag of f[c] for the continuations c of fl
MapBag(fl, f) ==
    [d \in {f[c] : c \in DOMAIN fl} |->
        SumCopies(fl, {c \in DOMAIN fl : f[c] = d})]

\* the socket and the id argument are recorded for the synchronous part of a
\* handler, and are 0 for a resumption
Act(op, s, arg, kind) == [op |-> op, sid |-> s, arg |-> arg, kind |-> kind]

\* ------------------------------------------------------------------ Init

Init ==
    /\ session = [s \in Sessions |-> [isAuthenticated |-> FALSE, userRole |-> NullRole]]
    /\ tokens = <<>>
    /\ tokenIdCounter = 1
    /\ assigned = {}
    /\ moveProposals = <<>>
    /\ dbProposals = {}
    /\ dbProposalSeq = 1
    /\ inflight = EmptyBag
    /\ out = <<>>
    /\ lastAct = Act("init", 0, 0, "done")
    /\ presented = [s \in Sessions |-> FALSE]
    /\ factionStats = <<>>
    /\ factionStatsIdCounter = 1
    /\ movableFactionsConfig = <<>>
    /\ held = [s \in Sessions |-> {}]

\* faction_stats:load replaces what a socket holds, faction_stats:updated adds
\* or replaces the faction it carries, faction_stats:deleted drops the faction
\* it names
HeldWith(h, e) ==
    IF e.ev = "faction_stats:load" THEN {e.arg[i].faction_name : i \in DOMAIN e.arg}
    ELSE IF e.ev = "faction_stats:updated" THEN h \cup {e.arg.faction_name}
    ELSE IF e.ev = "faction_stats:deleted" THEN h \ {e.arg}
    ELSE h

\* what the sockets hold once the events of emitted have reached them; roles
\* gives the userRole of each socket at that time
RECURSIVE HeldAfter(_, _, _)
HeldAfter(h, roles, emitted) ==
    IF emitted = <<>> THEN h
    ELSE LET e == Head(emitted)
         IN  HeldAfter(IF roles[e.to].userRole = "player"
                       THEN [h EXCEPT ![e.to] = HeldWith(@, e)]
                       ELSE h,
                       roles, Tail(emitted))

\* ------------------------------------------------------------------ sessions

\* tokens.filter(t => t.visible_to_players !== false), all of them for a dm
TokensToSend(role) ==
    IF role = "dm" THEN tokens
    ELSE SelectSeq(tokens, LAMBDA t : t.visible_to_players # FALSE)

\* f.is_visible === true, on the JSON value the record holds
StrictlyTrue(f) == f.is_visible = "true"

\* factionStats.filter(f => f.is_visible === true), all of them for a dm
FactionStatsToSend(role) ==
    IF role = "dm" THEN factionStats
    ELSE SelectSeq(factionStats, StrictlyTrue)

\* socket.on('authenticate') that also sends a player the token snapshot
Authenticate_sendsSnapshot(s, role, password) ==
    /\ IF role = "dm"
       THEN IF password = DmPassword
            THEN /\ session' = [session EXCEPT ![s] = [isAuthenticated |-> TRUE, userRole |-> "dm"]]
                 /\ out' = <<Emit(s, "auth_result", TRUE)>>
                 /\ lastAct' = Act("authenticate", s, 0, "dm_ok")
            ELSE /\ session' = session
                 /\ out' = <<Emit(s, "auth_result", FALSE)>>
                 /\ lastAct' = Act("authenticate", s, 0, "failed")
       ELSE IF role = "player"
            THEN /\ session' = [session EXCEPT ![s] = [isAuthenticated |-> TRUE, userRole |-> "player"]]
                 /\ out' = <<Emit(s, "auth_result", TRUE),
                             Emit(s, "tokens:load", TokensToSend("player"))>>
                 /\ lastAct' = Act("authenticate", s, 0, "player_ok")
            ELSE /\ session' = session
                 /\ out' = <<Emit(s, "auth_result", FALSE)>>
                 /\ lastAct' = Act("authenticate", s, 0, "failed")
    /\ presented' = [presented EXCEPT ![s] = @ \/ (role = "dm" /\ password = DmPassword)]
    /\ UNCHANGED <<tokVars, propVars, facVars, inflight>>

\* socket.on('authenticate') that signs the socket out when it fails
Authenticate_signsOut(s, role, password) ==
    /\ IF role = "dm"
       THEN IF password = DmPassword
            THEN /\ session' = [session EXCEPT ![s] = [isAuthenticated |-> TRUE, userRole |-> "dm"]]
                 /\ out' = <<Emit(s, "auth_result", TRUE)>>
                 /\ lastAct' = Act("authenticate", s, 0, "dm_ok")
            ELSE /\ session' = [session EXCEPT ![s] = [isAuthenticated |-> FALSE,
                                                        userRole |-> NullRole]]
                 /\ out' = <<Emit(s, "auth_result", FALSE)>>
                 /\ lastAct' = Act("authenticate", s, 0, "failed")
       ELSE IF role = "player"
            THEN /\ session' = [session EXCEPT ![s] = [isAuthenticated |-> TRUE, userRole |-> "player"]]
                 /\ out' = <<Emit(s, "auth_result", TRUE)>>
                 /\ lastAct' = Act("authenticate", s, 0, "player_ok")
            ELSE /\ session' = [session EXCEPT ![s] = [isAuthenticated |-> FALSE,
                                                        userRole |-> NullRole]]
                 /\ out' = <<Emit(s, "auth_result", FALSE)>>
                 /\ lastAct' = Act("authenticate", s, 0, "failed")
    /\ presented' = [presented EXCEPT ![s] = @ \/ (role = "dm" /\ password = DmPassword)]
    /\ UNCHANGED <<tokVars, propVars, facVars, inflight>>

\* socket.on('authenticate')
Authenticate(s, role, password) ==
    /\ IF role = "dm"
       THEN IF password = DmPassword
            THEN /\ session' = [session EXCEPT ![s] = [isAuthenticated |-> TRUE, userRole |-> "dm"]]
                 /\ out' = <<Emit(s, "auth_result", TRUE)>>
                 /\ lastAct' = Act("authenticate", s, 0, "dm_ok")
            ELSE /\ session' = session
                 /\ out' = <<Emit(s, "auth_result", FALSE)>>
                 /\ lastAct' = Act("authenticate", s, 0, "failed")
       ELSE IF role = "player"
            THEN /\ session' = [session EXCEPT ![s] = [isAuthenticated |-> TRUE, userRole |-> "player"]]
                 /\ out' = <<Emit(s, "auth_result", TRUE)>>
                 /\ lastAct' = Act("authenticate", s, 0, "player_ok")
            ELSE /\ session' = session
                 /\ out' = <<Emit(s, "auth_result", FALSE)>>
                 /\ lastAct' = Act("authenticate", s, 0, "failed")
    /\ presented' = [presented EXCEPT ![s] = @ \/ (role = "dm" /\ password = DmPassword)]
    /\ UNCHANGED <<tokVars, propVars, facVars, inflight>>

\* socket.on('set_role')
SetRole(s, role) ==
    /\ IF session[s].isAuthenticated
       THEN /\ session' = [session EXCEPT ![s].userRole = role]
            /\ out' = <<Emit(s, "tokens:load", TokensToSend(role)),
                        Emit(s, "faction_stats:load", FactionStatsToSend(role)),
                        Emit(s, "move_proposals:load", moveProposals),
                        Emit(s, "movable_factions:load", movableFactionsConfig)>>
            /\ lastAct' = Act("set_role", s, 0, "done")
       ELSE /\ session' = session
            /\ out' = <<>>
            /\ lastAct' = Act("set_role", s, 0, "ignored")
    /\ held' = HeldAfter(held, session', out')
    /\ UNCHANGED <<tokVars, propVars, facData, inflight, presented>>

\* socket.on('request_tokens') without the test of socket.isAuthenticated
RequestTokens_open(s) ==
    /\ out' = <<Emit(s, "tokens:load", TokensToSend(session[s].userRole)),
                Emit(s, "faction_stats:load", FactionStatsToSend(session[s].userRole))>>
    /\ lastAct' = Act("request_tokens", s, 0,
                      IF session[s].isAuthenticated THEN "done" ELSE "ignored")
    /\ held' = HeldAfter(held, session, out')
    /\ UNCHANGED <<session, tokVars, propVars, facData, inflight, presented>>

\* socket.on('request_tokens')
RequestTokens(s) ==
    /\ IF session[s].isAuthenticated
       THEN /\ out' = <<Emit(s, "tokens:load", TokensToSend(session[s].userRole)),
                        Emit(s, "faction_stats:load", FactionStatsToSend(session[s].userRole))>>
            /\ lastAct' = Act("request_tokens", s, 0, "done")
       ELSE /\ out' = <<>>
            /\ lastAct' = Act("request_tokens", s, 0, "ignored")
    /\ held' = HeldAfter(held, session, out')
    /\ UNCHANGED <<session, tokVars, propVars, facData, inflight, presented>>

\* ------------------------------------------------------------------ tokens

\* data.name || `Token ${id}`
TokenName(name, id) == IF name = Absent THEN "Token " \o ToString(id) ELSE name

\* the token object with visible_to_players: data.visible_to_players === true
NewToken_hiddenByDefault(id, xy, name, visible) ==
    [id |-> id, x |-> xy[1], y |-> xy[2], name |-> TokenName(name, id),
     visible_to_players |-> (visible = "true")]

\* the token object built by token:place
NewToken(id, xy, name, visible) ==
    [id |-> id, x |-> xy[1], y |-> xy[2], name |-> TokenName(name, id),
     visible_to_players |-> (visible # "false")]

\* tokens[i].x = x; tokens[i].y = y: the object is changed in place, so a
\* suspended token:place that still holds this very object sees the change
MoveAliased(fl, id, xy) ==
    MapBag(fl, [c \in DOMAIN fl |->
        IF c.op = "token:place" /\ c.alias /\ c.token.id = id
        THEN [c EXCEPT !.token.x = xy[1], !.token.y = xy[2]]
        ELSE c])

\* tokens[i] = {...}: a new object takes the slot of the array, the object a
\* suspended token:place holds is no longer the one in the array
BreakAlias(fl, id) ==
    MapBag(fl, [c \in DOMAIN fl |->
        IF c.op = "token:place" /\ c.alias /\ c.token.id = id
        THEN [c EXCEPT !.alias = FALSE]
        ELSE c])

\* tokens[i], undefined past the end of the array
TokenAt(i) == IF i \in 1..Len(tokens) THEN tokens[i] ELSE Undefined

\* the forEach of token:place, token:move and move_proposal:approve: the test
\* userRole === 'dm' || token.visible_to_players !== false reads the token at
\* the sockets that are not the dm's, a TypeError when token is undefined
TokenBroadcast(token, ev, arg) ==
    ForEach(NumSessions,
            [c \in Sessions |-> session[c].isAuthenticated
                                 /\ session[c].userRole # "dm" /\ ~IsDefined(token)],
            [c \in Sessions |->
                IF session[c].isAuthenticated
                   /\ (session[c].userRole = "dm" \/ token.visible_to_players # FALSE)
                THEN <<Emit(c, ev, arg)>> ELSE <<>>])

\* if (!isDM(socket)) { socket.emit('error', ...); return; }
Denied(s, op) ==
    /\ out' = <<Emit(s, "error", op)>>
    /\ lastAct' = Act(op, s, 0, "denied")
    /\ UNCHANGED <<session, tokVars, propVars, facVars, inflight, presented>>

\* socket.on('token:place'), a socket that is not the DM
TokenPlaceDenied(s) == ~isDM(s) /\ Denied(s, "token:place")

\* socket.on('token:place'), up to the await of the insert; visible records
\* the visible_to_players field the dm sent
TokenPlace(s, xy, name, visible) ==
    /\ isDM(s)
    /\ tokenIdCounter <= MaxTokenId
    /\ CanSuspend
    /\ LET token == NewToken(tokenIdCounter, xy, name, visible)
       IN  /\ tokenIdCounter' = tokenIdCounter + 1
           /\ assigned' = assigned \cup {tokenIdCounter}
           /\ tokens' = Append(tokens, token)
           /\ inflight' = Suspend(inflight,
                   [op |-> "token:place", token |-> token, alias |-> TRUE,
                    visible |-> visible])
    /\ out' = <<>>
    /\ lastAct' = Act("token:place", s, 0, "start")
    /\ UNCHANGED <<session, propVars, facVars, presented>>

\* token:place after the await: the broadcast reads the handler's own object
TokenPlaceResume(c, outcome) ==
    /\ c.op = "token:place"
    /\ LET token == c.token
       IN  out' = TokenBroadcast(token, "token:placed", token).out
    /\ lastAct' = Act("token:place", 0, 0, outcome)
    /\ inflight' = Resumed(inflight, c)
    /\ UNCHANGED <<session, tokVars, propVars, facVars, presented>>

\* socket.on('token:move'), a socket that is not the DM
TokenMoveDenied(s) == ~isDM(s) /\ Denied(s, "token:move")

\* token:move with an id no token has, answered with an error
TokenMoveUnknown_replies(s, tokenId) ==
    /\ isDM(s)
    /\ TokenIndex(tokenId) = 0
    /\ out' = <<Emit(s, "error", "token:move")>>
    /\ lastAct' = Act("token:move", s, tokenId, "unknown")
    /\ UNCHANGED <<session, tokVars, propVars, facVars, inflight, presented>>

\* socket.on('token:move') with an id no token has: nothing happens
TokenMoveUnknown(s, tokenId) ==
    /\ isDM(s)
    /\ TokenIndex(tokenId) = 0
    /\ out' = <<>>
    /\ lastAct' = Act("token:move", s, tokenId, "unknown")
    /\ UNCHANGED <<session, tokVars, propVars, facVars, inflight, presented>>

\* socket.on('token:move'), up to the await of the update
TokenMove(s, tokenId, xy) ==
    /\ isDM(s)
    /\ TokenIndex(tokenId) # 0
    /\ CanSuspend
    /\ LET tokenIndex == TokenIndex(tokenId)
       IN  /\ tokens' = [tokens EXCEPT ![tokenIndex].x = xy[1], ![tokenIndex].y = xy[2]]
           /\ inflight' = Suspend(MoveAliased(inflight, tokenId, xy),
                   [op |-> "token:move", tokenIndex |-> tokenIndex,
                    tokenId |-> tokenId, xy |-> xy])
    /\ out' = <<>>
    /\ lastAct' = Act("token:move", s, tokenId, "start")
    /\ UNCHANGED <<session, tokenIdCounter, assigned, propVars, facVars, presented>>

\* token:move after the await: tokens[tokenIndex] is read again, in the array
\* that tokens names now; the TypeError of the forEach is enclosed by no try
\* block of the handler
TokenMoveResume(c, outcome) ==
    /\ c.op = "token:move"
    /\ LET r == TokenBroadcast(TokenAt(c.tokenIndex), "token:moved",
                               [tokenId |-> c.tokenId, x |-> c.xy[1], y |-> c.xy[2]])
       IN  /\ out' = r.out
           /\ lastAct' = Act("token:move", 0, 0, IF r.thrown THEN "typeerror" ELSE outcome)
    /\ inflight' = Resumed(inflight, c)
    /\ UNCHANGED <<session, tokVars, propVars, facVars, presented>>

\* { ...tokens[i], ...updatedData }: the fields updatedData carries win
MergeToken(t, name, visible) ==
    [t EXCEPT !.name = IF name = Absent THEN @ ELSE name,
              !.visible_to_players = IF visible = Absent THEN @ ELSE (visible = "true")]

\* socket.on('token:update'), a socket that is not the DM
TokenUpdateDenied(s) == ~isDM(s) /\ Denied(s, "token:update")

\* socket.on('token:update') with an id no token has: nothing happens
TokenUpdateUnknown(s, id) ==
    /\ isDM(s)
    /\ TokenIndex(id) = 0
    /\ out' = <<>>
    /\ lastAct' = Act("token:update", s, id, "unknown")
    /\ UNCHANGED <<session, tokVars, propVars, facVars, inflight, presented>>

\* socket.on('token:update'), up to the await of the update; hides records
\* that this update turned visible_to_players from true to false
TokenUpdate(s, id, name, visible) ==
    /\ isDM(s)
    /\ TokenIndex(id) # 0
    /\ CanSuspend
    /\ LET tokenIndex == TokenIndex(id)
       IN  /\ tokens' = [tokens EXCEPT ![tokenIndex] = MergeToken(@, name, visible)]
           /\ inflight' = Suspend(BreakAlias(inflight, id),
                   [op |-> "token:update", tokenIndex |-> tokenIndex, id |-> id,
                    hides |-> (tokens[tokenIndex].visible_to_players = TRUE
                               /\ visible = "false")])
    /\ out' = <<>>
    /\ lastAct' = Act("token:update", s, id, "start")
    /\ UNCHANGED <<session, tokenIdCounter, assigned, propVars, facVars, presented>>

\* the forEach of token:update
UpdateBroadcast(updatedToken) ==
    ForEach(NumSessions,
            [c \in Sessions |-> session[c].isAuthenticated
                                 /\ session[c].userRole = "player"
                                 /\ ~IsDefined(updatedToken)],
            [c \in Sessions |->
                IF ~session[c].isAuthenticated THEN <<>>
                ELSE IF session[c].userRole = "dm"
                THEN <<Emit(c, "token:updated", updatedToken)>>
                ELSE IF session[c].userRole # "player" THEN <<>>
                ELSE IF updatedToken.visible_to_players # FALSE
                THEN <<Emit(c, "token:updated", updatedToken)>>
                ELSE <<Emit(c, "token:removed", updatedToken.id)>>])

\* token:update after the await
TokenUpdateResume(c, outcome) ==
    /\ c.op = "token:update"
    /\ LET r == UpdateBroadcast(TokenAt(c.tokenIndex))
       IN  /\ out' = r.out
           /\ lastAct' = Act("token:update", 0, 0, IF r.thrown THEN "typeerror" ELSE outcome)
    /\ inflight' = Resumed(inflight, c)
    /\ UNCHANGED <<session, tokVars, propVars, facVars, presented>>

\* socket.on('token:remove'), a socket that is not the DM
TokenRemoveDenied(s) == ~isDM(s) /\ Denied(s, "token:remove")

\* socket.on('token:remove'), up to the await of the delete
TokenRemove(s, tokenId) ==
    /\ isDM(s)
    /\ CanSuspend
    /\ tokens' = SelectSeq(tokens, LAMBDA t : t.id # tokenId)
    /\ inflight' = Suspend(inflight,
            [op |-> "token:remove", tokenId |-> tokenId])
    /\ out' = <<>>
    /\ lastAct' = Act("token:remove", s, tokenId, "start")
    /\ UNCHANGED <<session, tokenIdCounter, assigned, propVars, facVars, presented>>

\* token:remove after the await
TokenRemoveResume(c, outcome) ==
    /\ c.op = "token:remove"
    /\ out' = IoEmit("token:removed", c.tokenId)
    /\ lastAct' = Act("token:remove", 0, 0, outcome)
    /\ inflight' = Resumed(inflight, c)
    /\ UNCHANGED <<session, tokVars, propVars, facVars, presented>>

\* ------------------------------------------------------------------ start-up

\* visible_to_players of a row of the tokens table
RowVisible == {"true", "false", "null"}

\* a row of the tokens table
TokenRow(id, visible) ==
    [id |-> id, x |-> 0, y |-> 0, name |-> TokenName(Absent, id),
     visible_to_players |-> visible]

\* what select('*') can return from a tokens table whose rows have ids up to
\* k: the rows in some order, their ids distinct (id is the primary key)
TokenTables(k) ==
    {data \in UNION {[1..n -> {TokenRow(id, visible) : id \in 1..k, visible \in RowVisible}] :
                        n \in 0..k} :
        \A i, j \in 1..Len(data) : data[i].id = data[j].id => i = j}

\* Math.max(...tokens.map(t => t.id))
RECURSIVE MaxId(_)
MaxId(seq) ==
    IF Len(seq) = 1 THEN seq[1].id
    ELSE LET m == MaxId(Tail(seq))
         IN  IF seq[1].id > m THEN seq[1].id ELSE m

\* loadTokensFromDatabase: tokens and tokenIdCounter after the load of data,
\* the module's initial values when the select failed
loadTokensFromDatabase(data, failed) ==
    IF failed
    THEN [tokens |-> <<>>, tokenIdCounter |-> 1]
    ELSE LET loaded == [i \in 1..Len(data) |->
                           [data[i] EXCEPT !.visible_to_players = (@ # "false")]]
         IN  [tokens |-> loaded,
              tokenIdCounter |-> IF Len(loaded) > 0 THEN MaxId(loaded) + 1 ELSE 1]

\* the state after start-up on a tokens table that earlier runs of the server
\* left: these runs gave the ids 1..k to tokens, and the rows of the tokens
\* they did not remove are still in the table
InitLoaded ==
    \E k \in 0..MaxTokenId, failed \in BOOLEAN :
        \E data \in TokenTables(k) :
            /\ tokens = loadTokensFromDatabase(data, failed).tokens
            /\ tokenIdCounter = loadTokensFromDatabase(data, failed).tokenIdCounter
            /\ assigned = 1..k
            /\ session = [s \in Sessions |-> [isAuthenticated |-> FALSE, userRole |-> NullRole]]
            /\ moveProposals = <<>>
            /\ dbProposals = {}
            /\ dbProposalSeq = 1
            /\ inflight = EmptyBag
            /\ out = <<>>
            /\ lastAct = Act("init", 0, 0, "done")
            /\ presented = [s \in Sessions |-> FALSE]
            /\ factionStats = <<>>
            /\ factionStatsIdCounter = 1
            /\ movableFactionsConfig = <<>>
            /\ held = [s \in Sessions |-> {}]

\* ------------------------------------------------------------------ move proposals

\* The record store runs a request on the move_proposals table some time after
\* the handler sent it and before the handler resumes: a continuation with
\* db = "sent" waits for the store, any other db is the store's answer.  Of a
\* row only id and token_id are ever read back by the server, so dbProposals
\* keeps these two columns.

\* if (socket.userRole !== 'player') { socket.emit('error', ...); return; }
PlayerDenied(s, op) == session[s].userRole # "player" /\ Denied(s, op)

\* a catch block that logs the exception and sends nothing
Failed_logOnly(c) ==
    /\ out' = <<>>
    /\ lastAct' = Act(c.op, 0, 0, "failed")
    /\ inflight' = Resumed(inflight, c)

\* the catch block of a handler: socket.emit('error', ...)
Failed(c) ==
    /\ out' = <<Emit(c.sid, "error", c.op)>>
    /\ lastAct' = Act(c.op, 0, 0, "failed")
    /\ inflight' = Resumed(inflight, c)

ProposalIndex(token_id) ==
    LET RECURSIVE From(_)
        From(i) == IF i > Len(moveProposals) THEN 0
                   ELSE IF moveProposals[i].token_id = token_id THEN i
                   ELSE From(i + 1)
    IN  From(1)

\* creates that have not yet drawn their id from the sequence of the table
PendingInserts ==
    SumCopies(inflight, {c \in DOMAIN inflight :
        c.op = "move_proposal:create" /\ ~(c.phase = "insert" /\ c.db # "sent")})

\* socket.on('move_proposal:create'), a socket that is not a player
ProposalCreateDenied(s) == PlayerDenied(s, "move_proposal:create")

\* socket.on('move_proposal:create'), up to the await of the delete
ProposalCreate(s, token_id, original, proposed) ==
    /\ session[s].userRole = "player"
    /\ CanSuspend
    /\ dbProposalSeq + PendingInserts <= MaxProposalId
    /\ inflight' = Suspend(inflight,
            [op |-> "move_proposal:create", sid |-> s, phase |-> "delete", db |-> "sent",
             newProposal |-> [id |-> 0, token_id |-> token_id,
                              original_x |-> original[1], original_y |-> original[2],
                              proposed_x |-> proposed[1], proposed_y |-> proposed[2],
                              proposed_by_session |-> s]])
    /\ out' = <<>>
    /\ lastAct' = Act("move_proposal:create", s, token_id, "start")
    /\ UNCHANGED <<session, tokVars, propVars, facVars, presented>>

\* the store runs delete().eq('token_id', ...) of move_proposal:create
ProposalCreateDbDelete(c, result) ==
    /\ c.op = "move_proposal:create" /\ c.phase = "delete" /\ c.db = "sent"
    /\ dbProposals' = IF result = "ok"
                      THEN {r \in dbProposals : r.token_id # c.newProposal.token_id}
                      ELSE dbProposals
    /\ inflight' = Suspend(Resumed(inflight, c), [c EXCEPT !.db = result])
    /\ out' = <<>>
    /\ lastAct' = Act("store", 0, 0, "run")
    /\ UNCHANGED <<session, tokVars, moveProposals, dbProposalSeq, facVars, presented>>

\* move_proposal:create after the await of the delete, whose error result is
\* not read: the array is filtered and the insert is sent
ProposalCreateAfterDelete(c) ==
    /\ c.op = "move_proposal:create" /\ c.phase = "delete" /\ c.db # "sent"
    /\ IF c.db = "throw"
       THEN Failed(c) /\ moveProposals' = moveProposals
       ELSE /\ moveProposals' = SelectSeq(moveProposals,
                    LAMBDA p : p.token_id # c.newProposal.token_id)
            /\ inflight' = Suspend(Resumed(inflight, c),
                    [c EXCEPT !.phase = "insert", !.db = "sent"])
            /\ out' = <<>>
            /\ lastAct' = Act("move_proposal:create", 0, 0, "filtered")
    /\ UNCHANGED <<session, tokVars, dbProposals, dbProposalSeq, facVars, presented>>

\* the store runs the insert: the id is drawn from the sequence, and
\* UNIQUE(token_id) refuses a second row for the token
ProposalCreateDbInsert(c, result) ==
    /\ c.op = "move_proposal:create" /\ c.phase = "insert" /\ c.db = "sent"
    /\ IF result = "ok"
       THEN /\ dbProposalSeq' = dbProposalSeq + 1
            /\ IF \E r \in dbProposals : r.token_id = c.newProposal.token_id
               THEN /\ dbProposals' = dbProposals
                    /\ inflight' = Suspend(Resumed(inflight, c), [c EXCEPT !.db = "error"])
               ELSE /\ dbProposals' = dbProposals \cup
                            {[id |-> dbProposalSeq, token_id |-> c.newProposal.token_id]}
                    /\ inflight' = Suspend(Resumed(inflight, c),
                            [c EXCEPT !.db = "ok", !.newProposal.id = dbProposalSeq])
       ELSE /\ UNCHANGED <<dbProposals, dbProposalSeq>>
            /\ inflight' = Suspend(Resumed(inflight, c), [c EXCEPT !.db = result])
    /\ out' = <<>>
    /\ lastAct' = Act("store", 0, 0, "run")
    /\ UNCHANGED <<session, tokVars, moveProposals, facVars, presented>>

\* move_proposal:create after the await of the insert
ProposalCreateAfterInsert(c) ==
    /\ c.op = "move_proposal:create" /\ c.phase = "insert" /\ c.db # "sent"
    /\ IF c.db = "ok"
       THEN /\ moveProposals' = Append(moveProposals, c.newProposal)
            /\ out' = IoEmit("move_proposal:created", c.newProposal)
            /\ lastAct' = Act("move_proposal:create", 0, 0, "done")
            /\ inflight' = Resumed(inflight, c)
       ELSE Failed(c) /\ moveProposals' = moveProposals
    /\ UNCHANGED <<session, tokVars, dbProposals, dbProposalSeq, facVars, presented>>

\* socket.on('move_proposal:update'), a socket that is not a player
ProposalUpdateDenied(s) == PlayerDenied(s, "move_proposal:update")

\* the not-found reply of move_proposal:update sent with io.emit
ProposalUpdateNotFound_ioEmit(s, token_id) ==
    /\ session[s].userRole = "player"
    /\ ProposalIndex(token_id) = 0
    /\ out' = IoEmit("error", "No existing proposal found")
    /\ lastAct' = Act("move_proposal:update", s, token_id, "notfound")
    /\ UNCHANGED <<session, tokVars, propVars, facVars, inflight, presented>>

\* socket.on('move_proposal:update') for a token with no proposal
ProposalUpdateNotFound(s, token_id) ==
    /\ session[s].userRole = "player"
    /\ ProposalIndex(token_id) = 0
    /\ out' = <<Emit(s, "error", "No existing proposal found")>>
    /\ lastAct' = Act("move_proposal:update", s, token_id, "notfound")
    /\ UNCHANGED <<session, tokVars, propVars, facVars, inflight, presented>>

\* moveProposals[i].proposed_x = ...: the object is changed in place, so a
\* suspended move_proposal:approve that found this object reads the change
UpdateAliased(fl, id, proposed) ==
    MapBag(fl, [c \in DOMAIN fl |->
        IF c.op = "move_proposal:approve" /\ c.proposal.id = id
        THEN [c EXCEPT !.proposal.proposed_x = proposed[1],
                       !.proposal.proposed_y = proposed[2]]
        ELSE c])

\* socket.on('move_proposal:update'), up to the await of the update
ProposalUpdate(s, token_id, proposed) ==
    /\ session[s].userRole = "player"
    /\ ProposalIndex(token_id) # 0
    /\ CanSuspend
    /\ LET i == ProposalIndex(token_id)
       IN  /\ moveProposals' = [moveProposals EXCEPT ![i].proposed_x = proposed[1],
                                                     ![i].proposed_y = proposed[2]]
           /\ inflight' = Suspend(UpdateAliased(inflight, moveProposals[i].id, proposed),
                   [op |-> "move_proposal:update", sid |-> s,
                    existingProposalIndex |-> i])
    /\ out' = <<>>
    /\ lastAct' = Act("move_proposal:update", s, token_id, "start")
    /\ UNCHANGED <<session, tokVars, dbProposals, dbProposalSeq, facVars, presented>>

\* move_proposal:update after the await: moveProposals[existingProposalIndex]
\* is read again, undefined when the array has become shorter
ProposalUpdateResume(c, outcome) ==
    /\ c.op = "move_proposal:update"
    /\ IF outcome = "throw"
       THEN Failed(c)
       ELSE /\ out' = IoEmit("move_proposal:updated",
                             IF c.existingProposalIndex > Len(moveProposals)
                             THEN Undefined
                             ELSE moveProposals[c.existingProposalIndex])
            /\ lastAct' = Act("move_proposal:update", 0, 0, outcome)
            /\ inflight' = Resumed(inflight, c)
    /\ UNCHANGED <<session, tokVars, propVars, facVars, presented>>

\* the proposals with this id: moveProposals.find(p => p.id === proposalId)
ProposalsWithId(proposalId) ==
    {i \in 1..Len(moveProposals) : moveProposals[i].id = proposalId}

\* socket.on('move_proposal:approve'), a socket that is not the DM
ProposalApproveDenied(s) == ~isDM(s) /\ Denied(s, "move_proposal:approve")

\* the not-found reply of move_proposal:approve sent with io.emit
ProposalApproveNotFound_ioEmit(s, proposalId) ==
    /\ isDM(s)
    /\ ProposalsWithId(proposalId) = {}
    /\ out' = IoEmit("error", "Proposal not found")
    /\ lastAct' = Act("move_proposal:approve", s, proposalId, "notfound")
    /\ UNCHANGED <<session, tokVars, propVars, facVars, inflight, presented>>

\* socket.on('move_proposal:approve') with an id no proposal has
ProposalApproveNotFound(s, proposalId) ==
    /\ isDM(s)
    /\ ProposalsWithId(proposalId) = {}
    /\ out' = <<Emit(s, "error", "Proposal not found")>>
    /\ lastAct' = Act("move_proposal:approve", s, proposalId, "notfound")
    /\ UNCHANGED <<session, tokVars, propVars, facVars, inflight, presented>>

\* socket.on('move_proposal:approve'), up to its first await: the update of
\* the token when the token is there, the delete of the proposal otherwise
ProposalApprove(s, proposalId) ==
    /\ isDM(s)
    /\ ProposalsWithId(proposalId) # {}
    /\ CanSuspend
    /\ LET proposal == moveProposals[CHOOSE i \in ProposalsWithId(proposalId) :
                                        \A j \in ProposalsWithId(proposalId) : i <= j]
           tokenIndex == TokenIndex(proposal.token_id)
           c == [op |-> "move_proposal:approve", sid |-> s, proposal |-> proposal,
                 tokenIndex |-> tokenIndex, db |-> "sent",
                 phase |-> IF tokenIndex = 0 THEN "delete" ELSE "token"]
       IN  IF tokenIndex = 0
           THEN /\ tokens' = tokens
                /\ inflight' = Suspend(inflight, c)
                /\ lastAct' = Act("move_proposal:approve", s, proposalId, "start_no_token")
           ELSE /\ tokens' = [tokens EXCEPT ![tokenIndex].x = proposal.proposed_x,
                                            ![tokenIndex].y = proposal.proposed_y]
                /\ inflight' = Suspend(
                        MoveAliased(inflight, proposal.token_id,
                                    <<proposal.proposed_x, proposal.proposed_y>>), c)
                /\ lastAct' = Act("move_proposal:approve", s, proposalId, "start")
    /\ out' = <<>>
    /\ UNCHANGED <<session, tokenIdCounter, assigned, propVars, facVars, presented>>

\* move_proposal:approve after the await of the token update: the broadcast of
\* token:moved, then the delete of the proposal is sent.  The TypeError of
\* the forEach is thrown inside the try block here.
ProposalApproveAfterToken(c, outcome) ==
    /\ c.op = "move_proposal:approve" /\ c.phase = "token"
    /\ IF outcome = "throw"
       THEN Failed(c)
       ELSE LET r == TokenBroadcast(TokenAt(c.tokenIndex), "token:moved",
                                    [tokenId |-> c.proposal.token_id,
                                     x |-> c.proposal.proposed_x,
                                     y |-> c.proposal.proposed_y])
            IN  IF r.thrown
                THEN /\ out' = r.out \o <<Emit(c.sid, "error", c.op)>>
                     /\ lastAct' = Act(c.op, 0, 0, "typeerror")
                     /\ inflight' = Resumed(inflight, c)
                ELSE /\ out' = r.out
                     /\ lastAct' = Act(c.op, 0, 0, "moved")
                     /\ inflight' = Suspend(Resumed(inflight, c),
                                            [c EXCEPT !.phase = "delete"])
    /\ UNCHANGED <<session, tokVars, propVars, facVars, presented>>

\* socket.on('move_proposal:reject'), a socket that is not the DM
ProposalRejectDenied(s) == ~isDM(s) /\ Denied(s, "move_proposal:reject")

\* socket.on('move_proposal:reject'), up to the await of the delete
ProposalReject(s, proposalId) ==
    /\ isDM(s)
    /\ CanSuspend
    /\ inflight' = Suspend(inflight,
            [op |-> "move_proposal:reject", sid |-> s, phase |-> "delete", db |-> "sent",
             proposal |-> [id |-> proposalId],
             known |-> (ProposalsWithId(proposalId) # {})])
    /\ out' = <<>>
    /\ lastAct' = Act("move_proposal:reject", s, proposalId, "start")
    /\ UNCHANGED <<session, tokVars, propVars, facVars, presented>>

\* socket.on('move_proposal:cancel'), a socket that is not a player
ProposalCancelDenied(s) == PlayerDenied(s, "move_proposal:cancel")

\* move_proposal:cancel with the test of the role replaced by a test of
\* isAuthenticated
ProposalCancel_anyRole(s, proposalId) ==
    /\ session[s].isAuthenticated
    /\ CanSuspend
    /\ inflight' = Suspend(inflight,
            [op |-> "move_proposal:cancel", sid |-> s, phase |-> "delete", db |-> "sent",
             proposal |-> [id |-> proposalId]])
    /\ out' = <<>>
    /\ lastAct' = Act("move_proposal:cancel", s, proposalId, "start")
    /\ UNCHANGED <<session, tokVars, propVars, facVars, presented>>

\* socket.on('move_proposal:cancel'), up to the await of the delete
ProposalCancel(s, proposalId) ==
    /\ session[s].userRole = "player"
    /\ CanSuspend
    /\ inflight' = Suspend(inflight,
            [op |-> "move_proposal:cancel", sid |-> s, phase |-> "delete", db |-> "sent",
             proposal |-> [id |-> proposalId]])
    /\ out' = <<>>
    /\ lastAct' = Act("move_proposal:cancel", s, proposalId, "start")
    /\ UNCHANGED <<session, tokVars, propVars, facVars, presented>>

\* the store runs delete().eq('id', proposalId) of approve, reject or cancel
ProposalDbDeleteById(c, result) ==
    /\ c.op \in {"move_proposal:approve", "move_proposal:reject", "move_proposal:cancel"}
    /\ c.phase = "delete" /\ c.db = "sent"
    /\ dbProposals' = IF result = "ok"
                      THEN {r \in dbProposals : r.id # c.proposal.id}
                      ELSE dbProposals
    /\ inflight' = Suspend(Resumed(inflight, c), [c EXCEPT !.db = result])
    /\ out' = <<>>
    /\ lastAct' = Act("store", 0, 0, "run")
    /\ UNCHANGED <<session, tokVars, moveProposals, dbProposalSeq, facVars, presented>>

\* the event the handler broadcasts once the proposal is deleted
RemovalEvent(op) ==
    IF op = "move_proposal:approve" THEN "move_proposal:approved"
    ELSE "move_proposal:rejected"

\* approve, reject or cancel after the await of the delete, with a reject that
\* looks the proposal up and replies "not found" when it is not there
ProposalAfterDeleteById_lookup(c) ==
    /\ c.op \in {"move_proposal:approve", "move_proposal:reject", "move_proposal:cancel"}
    /\ c.phase = "delete" /\ c.db # "sent"
    /\ IF c.db = "throw" \/ (c.op = "move_proposal:reject"
                              /\ ProposalsWithId(c.proposal.id) = {})
       THEN Failed(c) /\ moveProposals' = moveProposals
       ELSE /\ moveProposals' = SelectSeq(moveProposals, LAMBDA p : p.id # c.proposal.id)
            /\ out' = IoEmit(RemovalEvent(c.op), c.proposal.id)
            /\ lastAct' = Act(c.op, 0, 0, "done")
            /\ inflight' = Resumed(inflight, c)
    /\ UNCHANGED <<session, tokVars, dbProposals, dbProposalSeq, facVars, presented>>

\* approve, reject or cancel after the await of the delete, with a reject and a
\* cancel that put the token where the proposal wanted it
ProposalAfterDeleteById_movesToken(c) ==
    /\ c.op \in {"move_proposal:approve", "move_proposal:reject", "move_proposal:cancel"}
    /\ c.phase = "delete" /\ c.db # "sent"
    /\ IF c.db = "throw"
       THEN Failed(c) /\ moveProposals' = moveProposals /\ tokens' = tokens
       ELSE /\ moveProposals' = SelectSeq(moveProposals, LAMBDA p : p.id # c.proposal.id)
            /\ tokens' = [k \in 1..Len(tokens) |->
                    IF \E i \in ProposalsWithId(c.proposal.id) :
                          moveProposals[i].token_id = tokens[k].id
                    THEN [tokens[k] EXCEPT !.x = 5, !.y = 7]
                    ELSE tokens[k]]
            /\ out' = IoEmit(RemovalEvent(c.op), c.proposal.id)
            /\ lastAct' = Act(c.op, 0, 0, "done")
            /\ inflight' = Resumed(inflight, c)
    /\ UNCHANGED <<session, tokenIdCounter, assigned, dbProposals, dbProposalSeq,
                   facVars, presented>>

\* approve, reject or cancel after the await of the delete, whose error result
\* is not read
ProposalAfterDeleteById(c) ==
    /\ c.op \in {"move_proposal:approve", "move_proposal:reject", "move_proposal:cancel"}
    /\ c.phase = "delete" /\ c.db # "sent"
    /\ IF c.db = "throw"
       THEN Failed(c) /\ moveProposals' = moveProposals
       ELSE /\ moveProposals' = SelectSeq(moveProposals, LAMBDA p : p.id # c.proposal.id)
            /\ out' = IoEmit(RemovalEvent(c.op), c.proposal.id)
            /\ lastAct' = Act(c.op, 0, 0, "done")
            /\ inflight' = Resumed(inflight, c)
    /\ UNCHANGED <<session, tokVars, dbProposals, dbProposalSeq, facVars, presented>>

\* socket.on('move_proposals:clear_all'), a socket that is not the DM
ProposalClearAllDenied(s) == ~isDM(s) /\ Denied(s, "move_proposals:clear_all")

\* socket.on('move_proposals:clear_all'), up to the await of the delete
ProposalClearAll(s) ==
    /\ isDM(s)
    /\ CanSuspend
    /\ inflight' = Suspend(inflight,
            [op |-> "move_proposals:clear_all", sid |-> s, phase |-> "delete", db |-> "sent"])
    /\ out' = <<>>
    /\ lastAct' = Act("move_proposals:clear_all", s, 0, "start")
    /\ UNCHANGED <<session, tokVars, propVars, facVars, presented>>

\* the store runs delete().neq('id', 0)
ProposalDbDeleteAll(c, result) ==
    /\ c.op = "move_proposals:clear_all" /\ c.db = "sent"
    /\ dbProposals' = IF result = "ok" THEN {} ELSE dbProposals
    /\ inflight' = Suspend(Resumed(inflight, c), [c EXCEPT !.db = result])
    /\ out' = <<>>
    /\ lastAct' = Act("store", 0, 0, "run")
    /\ UNCHANGED <<session, tokVars, moveProposals, dbProposalSeq, facVars, presented>>

\* move_proposals:clear_all after the await
ProposalClearAllResume(c) ==
    /\ c.op = "move_proposals:clear_all" /\ c.db # "sent"
    /\ IF c.db = "throw"
       THEN Failed(c) /\ moveProposals' = moveProposals
       ELSE /\ moveProposals' = <<>>
            /\ out' = IoEmit("move_proposals:cleared", 0)
            /\ lastAct' = Act(c.op, 0, 0, "done")
            /\ inflight' = Resumed(inflight, c)
    /\ UNCHANGED <<session, tokVars, dbProposals, dbProposalSeq, facVars, presented>>

\* ------------------------------------------------------------------ faction stats

\* a lookup that finds no record
FactionIndex_none(faction_name) == 0

\* factionStats.findIndex(f => f.faction_name === factionData.faction_name)
FactionIndex(faction_name) ==
    LET RECURSIVE From(_)
        From(i) == IF i > Len(factionStats) THEN 0
                   ELSE IF factionStats[i].faction_name = faction_name THEN i
                   ELSE From(i + 1)
    IN  From(1)

\* the truth value JavaScript gives a JSON value in a condition or under ||
Truthy(v) == v \notin {Absent, "false"}

\* the newFaction object with is_visible: factionData.is_visible ?? true
NewFaction_visibleByDefault(id, faction_name, visible, hp) ==
    [id |-> id, faction_name |-> faction_name,
     current_hp |-> IF hp = Absent THEN "0" ELSE hp,
     is_visible |-> IF visible = Absent THEN "true" ELSE visible]

\* the newFaction object: current_hp || 0, is_visible || false
NewFaction(id, faction_name, visible, hp) ==
    [id |-> id, faction_name |-> faction_name,
     current_hp |-> IF hp = Absent THEN "0" ELSE hp,
     is_visible |-> IF Truthy(visible) THEN visible ELSE "false"]

\* { ...factionStats[existingIndex], ...factionData }
MergeFaction(f, visible, hp) ==
    [f EXCEPT !.current_hp = IF hp = Absent THEN @ ELSE hp,
              !.is_visible = IF visible = Absent THEN @ ELSE visible]

\* the forEach of faction_stats:update
FactionBroadcast(updatedFaction) ==
    ForEach(NumSessions, [c \in Sessions |-> FALSE],
            [c \in Sessions |->
                IF ~session[c].isAuthenticated THEN <<>>
                ELSE IF session[c].userRole = "dm"
                THEN <<Emit(c, "faction_stats:updated", updatedFaction)>>
                ELSE IF session[c].userRole = "player" /\ Truthy(updatedFaction.is_visible)
                THEN <<Emit(c, "faction_stats:updated", updatedFaction)>>
                ELSE <<>>]).out

\* socket.on('faction_stats:update'), a socket that is not the DM
FactionStatsUpdateDenied(s) == ~isDM(s) /\ Denied(s, "faction_stats:update")

\* socket.on('faction_stats:update'), up to the await of the update or insert
FactionStatsUpdate(s, faction_name, visible, hp) ==
    /\ isDM(s)
    /\ CanSuspend
    /\ LET existingIndex == FactionIndex(faction_name)
       IN  IF existingIndex # 0
           THEN LET updatedFaction == MergeFaction(factionStats[existingIndex], visible, hp)
                IN  /\ factionStats' = [factionStats EXCEPT ![existingIndex] = updatedFaction]
                    /\ factionStatsIdCounter' = factionStatsIdCounter
                    /\ inflight' = Suspend(inflight,
                            [op |-> "faction_stats:update", sid |-> s,
                             updatedFaction |-> updatedFaction, created |-> FALSE,
                             visible |-> visible])
                    /\ lastAct' = Act("faction_stats:update", s, 0, "merged")
           ELSE LET newFaction == NewFaction(factionStatsIdCounter, faction_name, visible, hp)
                IN  /\ factionStatsIdCounter <= MaxFactionId
                    /\ factionStatsIdCounter' = factionStatsIdCounter + 1
                    /\ factionStats' = Append(factionStats, newFaction)
                    /\ inflight' = Suspend(inflight,
                            [op |-> "faction_stats:update", sid |-> s,
                             updatedFaction |-> newFaction, created |-> TRUE,
                             visible |-> visible])
                    /\ lastAct' = Act("faction_stats:update", s, 0, "created")
    /\ out' = <<>>
    /\ UNCHANGED <<session, tokVars, propVars, movableFactionsConfig, held, presented>>

\* faction_stats:update after the await: a returned error is logged, a thrown
\* exception reaches the catch block
FactionStatsUpdateResume(c, outcome) ==
    /\ c.op = "faction_stats:update"
    /\ IF outcome = "throw"
       THEN Failed(c)
       ELSE /\ out' = FactionBroadcast(c.updatedFaction)
            /\ lastAct' = Act(c.op, 0, 0, outcome)
            /\ inflight' = Resumed(inflight, c)
    /\ held' = HeldAfter(held, session, out')
    /\ UNCHANGED <<session, tokVars, propVars, facData, presented>>

\* socket.on('faction_stats:delete'), a socket that is not the DM
FactionStatsDeleteDenied(s) == ~isDM(s) /\ Denied(s, "faction_stats:delete")

\* socket.on('faction_stats:delete'), up to the await of the delete
FactionStatsDelete(s, factionName) ==
    /\ isDM(s)
    /\ CanSuspend
    /\ factionStats' = SelectSeq(factionStats, LAMBDA f : f.faction_name # factionName)
    /\ inflight' = Suspend(inflight,
            [op |-> "faction_stats:delete", sid |-> s, factionName |-> factionName])
    /\ out' = <<>>
    /\ lastAct' = Act("faction_stats:delete", s, 0, "start")
    /\ UNCHANGED <<session, tokVars, propVars, factionStatsIdCounter,
                   movableFactionsConfig, held, presented>>

\* faction_stats:delete after the await
FactionStatsDeleteResume(c, outcome) ==
    /\ c.op = "faction_stats:delete"
    /\ IF outcome = "throw"
       THEN Failed(c)
       ELSE /\ out' = IoEmit("faction_stats:deleted", c.factionName)
            /\ lastAct' = Act(c.op, 0, 0, outcome)
            /\ inflight' = Resumed(inflight, c)
    /\ held' = HeldAfter(held, session, out')
    /\ UNCHANGED <<session, tokVars, propVars, facData, presented>>

\* ------------------------------------------------------------------ movable factions

\* socket.on('movable_factions:update'), a socket that is not the DM
MovableFactionsUpdateDenied(s) == ~isDM(s) /\ Denied(s, "movable_factions:update")

\* socket.on('movable_factions:update'), up to the await of the delete
MovableFactionsUpdate(s, factionsConfig) ==
    /\ isDM(s)
    /\ CanSuspend
    /\ inflight' = Suspend(inflight,
            [op |-> "movable_factions:update", sid |-> s, phase |-> "delete",
             factionsConfig |-> factionsConfig])
    /\ out' = <<>>
    /\ lastAct' = Act("movable_factions:update", s, 0, "start")
    /\ UNCHANGED <<session, tokVars, propVars, facVars, presented>>

\* movable_factions:update that assigns and broadcasts the configuration
\* whatever the outcome of its writes
MovableFactionsUpdateResume_fireAndForget(c, outcome) ==
    /\ c.op = "movable_factions:update"
    /\ IF c.phase = "delete" /\ Len(c.factionsConfig) > 0
       THEN /\ inflight' = Suspend(Resumed(inflight, c), [c EXCEPT !.phase = "insert"])
            /\ out' = <<>>
            /\ lastAct' = Act(c.op, 0, 0, "deleted")
            /\ movableFactionsConfig' = movableFactionsConfig
       ELSE /\ movableFactionsConfig' = c.factionsConfig
            /\ out' = IoEmit("movable_factions:updated", c.factionsConfig)
            /\ lastAct' = Act(c.op, 0, 0, IF outcome = "throw" THEN "failed" ELSE outcome)
            /\ inflight' = Resumed(inflight, c)
    /\ UNCHANGED <<session, tokVars, propVars, factionStats, factionStatsIdCounter,
                   held, presented>>

\* movable_factions:update after an await: after the delete the insert is
\* sent when the configuration is not empty; after the last write the
\* configuration is assigned and broadcast.  The results are not read, a
\* thrown exception reaches the catch block.
MovableFactionsUpdateResume(c, outcome) ==
    /\ c.op = "movable_factions:update"
    /\ IF outcome = "throw"
       THEN Failed(c) /\ movableFactionsConfig' = movableFactionsConfig
       ELSE IF c.phase = "delete" /\ Len(c.factionsConfig) > 0
       THEN /\ inflight' = Suspend(Resumed(inflight, c), [c EXCEPT !.phase = "insert"])
            /\ out' = <<>>
            /\ lastAct' = Act(c.op, 0, 0, "deleted")
            /\ movableFactionsConfig' = movableFactionsConfig
       ELSE /\ movableFactionsConfig' = c.factionsConfig
            /\ out' = IoEmit("movable_factions:updated", c.factionsConfig)
            /\ lastAct' = Act(c.op, 0, 0, outcome)
            /\ inflight' = Resumed(inflight, c)
    /\ UNCHANGED <<session, tokVars, propVars, factionStats, factionStatsIdCounter,
                   held, presented>>

\* ------------------------------------------------------------------ Next

TokenIds == 1..MaxTokenId
ProposalIds == 1..MaxProposalId
Suspended == BagToSet(inflight)

\* what a socket can send to sign in
SessionNext ==
    \E s \in Sessions :
        \/ \E role \in RoleInputs, password \in PasswordInputs : Authenticate(s, role, password)
        \/ \E role \in RoleInputs : SetRole(s, role)
        \/ RequestTokens(s)

TokenDeniedNext ==
    \E s \in Sessions :
        \/ TokenPlaceDenied(s)
        \/ TokenMoveDenied(s)
        \/ TokenUpdateDenied(s)
        \/ TokenRemoveDenied(s)

ProposalDeniedNext ==
    \E s \in Sessions :
        \/ ProposalCreateDenied(s)
        \/ ProposalUpdateDenied(s)
        \/ ProposalApproveDenied(s)
        \/ ProposalRejectDenied(s)
        \/ ProposalCancelDenied(s)
        \/ ProposalClearAllDenied(s)

\* Spec: every way of signing in and every guard of a handler, around one token
\* and one proposal
Next ==
    \/ SessionNext
    \/ TokenDeniedNext
    \/ ProposalDeniedNext
    \/ \E s \in Sessions, visible \in {Absent, "false"} :
            tokenIdCounter = 1 /\ TokenPlace(s, <<0, 0>>, Absent, visible)
    \/ \E s \in Sessions : ProposalCreate(s, 1, <<0, 0>>, <<5, 7>>)
    \/ \E c \in Suspended :
        \/ TokenPlaceResume(c, "ok")
        \/ ProposalCreateDbDelete(c, "ok")
        \/ ProposalCreateDbInsert(c, "ok")
        \/ ProposalCreateAfterDelete(c)
        \/ ProposalCreateAfterInsert(c)

Spec == Init /\ [][Next]_vars

\* SpecGate: sockets that are the dm, a player or not signed in send the
\* players' proposal actions for token 1
GateNext ==
    \/ \E s \in Sessions : Authenticate(s, "dm", DmPassword)
    \/ \E s \in Sessions : Authenticate(s, "player", "guess")
    \/ \E s \in Sessions : ProposalCreateDenied(s)
    \/ \E s \in Sessions : ProposalUpdateDenied(s)
    \/ \E s \in Sessions : ProposalCancelDenied(s)
    \/ \E s \in Sessions, proposed \in XY : ProposalCreate(s, 1, <<0, 0>>, proposed)
    \/ \E s \in Sessions : ProposalUpdateNotFound(s, 1)
    \/ \E s \in Sessions, proposed \in XY : ProposalUpdate(s, 1, proposed)
    \/ \E s \in Sessions, p \in ProposalIds : ProposalCancel(s, p)
    \/ \E c \in Suspended :
        \/ ProposalCreateDbDelete(c, "ok")
        \/ ProposalCreateDbInsert(c, "ok")
        \/ ProposalDbDeleteById(c, "ok")
        \/ ProposalUpdateResume(c, "ok")
        \/ ProposalCreateAfterDelete(c)
        \/ ProposalCreateAfterInsert(c)
        \/ ProposalAfterDeleteById(c)

SpecGate == Init /\ [][GateNext]_vars

\* session 1 signs in as the dm, the other sessions as players
TableSessionNext ==
    \/ Authenticate(1, "dm", DmPassword)
    \/ \E s \in Sessions \ {1} : Authenticate(s, "player", "guess")

\* SpecTok: the dm's token handlers, interleaved at their awaits
TokNext ==
    \/ TableSessionNext
    \/ \E s \in Sessions : TokenRemoveDenied(s)
    \/ \E s \in Sessions, xy \in XY, name \in NameInputs, visible \in VisibleInputs :
            TokenPlace(s, xy, name, visible)
    \/ \E s \in Sessions, id \in TokenIds : TokenMoveUnknown(s, id)
    \/ \E s \in Sessions, id \in TokenIds, xy \in XY : TokenMove(s, id, xy)
    \/ \E s \in Sessions, id \in TokenIds : TokenUpdateUnknown(s, id)
    \/ \E s \in Sessions, id \in TokenIds, name \in NameInputs, visible \in VisibleInputs :
            TokenUpdate(s, id, name, visible)
    \/ \E s \in Sessions, id \in TokenIds : TokenRemove(s, id)
    \/ \E c \in Suspended, outcome \in DbOutcomes :
        \/ TokenPlaceResume(c, outcome)
        \/ TokenMoveResume(c, outcome)
        \/ TokenUpdateResume(c, outcome)
        \/ TokenRemoveResume(c, outcome)

SpecTok == Init /\ [][TokNext]_vars

\* SpecCreate: the players' proposal handlers and the store, interleaved at
\* their awaits
CreateNext ==
    \/ \E s \in Sessions : Authenticate(s, "player", "guess")
    \/ \E s \in Sessions, t \in TokenIds, proposed \in XY :
            ProposalCreate(s, t, <<0, 0>>, proposed)
    \/ \E s \in Sessions, t \in TokenIds : ProposalUpdateNotFound(s, t)
    \/ \E s \in Sessions, t \in TokenIds, proposed \in XY : ProposalUpdate(s, t, proposed)
    \/ \E s \in Sessions, p \in ProposalIds : ProposalCancel(s, p)
    \/ \E c \in Suspended, result \in DbOutcomes :
        \/ ProposalCreateDbDelete(c, result)
        \/ ProposalCreateDbInsert(c, result)
        \/ ProposalDbDeleteById(c, result)
        \/ ProposalUpdateResume(c, result)
    \/ \E c \in Suspended :
        \/ ProposalCreateAfterDelete(c)
        \/ ProposalCreateAfterInsert(c)
        \/ ProposalAfterDeleteById(c)

SpecCreate == Init /\ [][CreateNext]_vars

\* SpecApprove: the dm places and removes tokens and decides on the proposals
\* the players make for token 1
ApproveNext ==
    \/ TableSessionNext
    \/ \E visible \in {Absent, "false"} : TokenPlace(1, <<0, 0>>, Absent, visible)
    \/ TokenRemove(1, 1)
    \/ \E s \in Sessions, proposed \in XY : ProposalCreate(s, 1, <<0, 0>>, proposed)
    \/ \E s \in Sessions, proposed \in XY : ProposalUpdate(s, 1, proposed)
    \/ \E s \in Sessions, p \in ProposalIds : ProposalApproveNotFound(s, p)
    \/ \E s \in Sessions, p \in ProposalIds : ProposalApprove(s, p)
    \/ \E s \in Sessions, p \in ProposalIds : ProposalReject(s, p)
    \/ \E c \in Suspended, outcome \in DbOutcomes :
        \/ TokenPlaceResume(c, outcome)
        \/ TokenRemoveResume(c, outcome)
        \/ ProposalCreateDbDelete(c, outcome)
        \/ ProposalCreateDbInsert(c, outcome)
        \/ ProposalDbDeleteById(c, outcome)
        \/ ProposalUpdateResume(c, outcome)
        \/ ProposalApproveAfterToken(c, outcome)
    \/ \E c \in Suspended :
        \/ ProposalCreateAfterDelete(c)
        \/ ProposalCreateAfterInsert(c)
        \/ ProposalAfterDeleteById(c)

SpecApprove == Init /\ [][ApproveNext]_vars

\* SpecStore: one action of every kind by the dm and by the player, with a
\* record store that succeeds, returns an error or throws
StoreNext ==
    \/ TableSessionNext
    \/ tokenIdCounter = 1 /\ TokenPlace(1, <<0, 0>>, Absent, Absent)
    \/ TokenRemove(1, 1)
    \/ \E visible \in {Absent, "true"} : FactionStatsUpdate(1, "Iron", visible, Absent)
    \/ FactionStatsDelete(1, "Iron")
    \/ \E factionsConfig \in ConfigInputs : MovableFactionsUpdate(1, factionsConfig)
    \/ \E s \in Sessions \ {1} : ProposalCreate(s, 1, <<0, 0>>, <<5, 7>>)
    \/ ProposalReject(1, 1)
    \/ \E c \in Suspended, outcome \in DbOutcomes :
        \/ TokenPlaceResume(c, outcome)
        \/ TokenRemoveResume(c, outcome)
        \/ FactionStatsUpdateResume(c, outcome)
        \/ FactionStatsDeleteResume(c, outcome)
        \/ MovableFactionsUpdateResume(c, outcome)
        \/ ProposalCreateDbDelete(c, outcome)
        \/ ProposalCreateDbInsert(c, outcome)
        \/ ProposalDbDeleteById(c, outcome)
    \/ \E c \in Suspended :
        \/ ProposalCreateAfterDelete(c)
        \/ ProposalCreateAfterInsert(c)
        \/ ProposalAfterDeleteById(c)

SpecStore == Init /\ [][StoreNext]_vars

\* SpecFac: the dm's faction stats handlers, interleaved at their awaits, and
\* the snapshots the players ask for
FacNext ==
    \/ TableSessionNext
    \/ \E s \in Sessions \ {1} : SetRole(s, "player")
    \/ \E s \in Sessions : RequestTokens(s)
    \/ \E s \in Sessions : FactionStatsUpdateDenied(s)
    \/ \E s \in Sessions : FactionStatsDeleteDenied(s)
    \/ \E s \in Sessions, faction_name \in FactionNames, visible \in VisibleInputs,
           hp \in HpInputs : FactionStatsUpdate(s, faction_name, visible, hp)
    \/ \E s \in Sessions, factionName \in FactionNames : FactionStatsDelete(s, factionName)
    \/ \E c \in Suspended, outcome \in DbOutcomes :
        \/ FactionStatsUpdateResume(c, outcome)
        \/ FactionStatsDeleteResume(c, outcome)

SpecFac == Init /\ [][FacNext]_vars

\* SpecLoad: the dm places and removes tokens after a start-up on the table
\* that earlier runs left
LoadNext ==
    \/ TableSessionNext
    \/ \E xy \in XY, visible \in {Absent, "false"} : TokenPlace(1, xy, Absent, visible)
    \/ \E id \in TokenIds : TokenRemove(1, id)
    \/ \E c \in Suspended :
        \/ TokenPlaceResume(c, "ok")
        \/ TokenRemoveResume(c, "ok")

SpecLoad == InitLoaded /\ [][LoadNext]_vars

\* SpecSnap: the dm places, hides, shows and removes tokens while the players
\* ask for snapshots
SnapNext ==
    \/ TableSessionNext
    \/ \E s \in Sessions \ {1} : SetRole(s, "player")
    \/ \E s \in Sessions : RequestTokens(s)
    \/ \E xy \in XY, visible \in VisibleInputs : TokenPlace(1, xy, Absent, visible)
    \/ \E id \in TokenIds, visible \in VisibleInputs : TokenUpdate(1, id, Absent, visible)
    \/ \E id \in TokenIds : TokenRemove(1, id)
    \/ \E c \in Suspended, outcome \in DbOutcomes :
        \/ TokenPlaceResume(c, outcome)
        \/ TokenUpdateResume(c, outcome)
        \/ TokenRemoveResume(c, outcome)

SpecSnap == Init /\ [][SnapNext]_vars

\* SpecDecide: the dm places and moves token 1 and rejects proposals, the
\* player proposes moves of token 1 and cancels proposals
DecideNext ==
    \/ TableSessionNext
    \/ tokenIdCounter = 1 /\ TokenPlace(1, <<0, 0>>, Absent, Absent)
    \/ \E xy \in XY : TokenMove(1, 1, xy)
    \/ \E s \in Sessions \ {1}, proposed \in XY : ProposalCreate(s, 1, <<0, 0>>, proposed)
    \/ \E p \in ProposalIds : ProposalReject(1, p)
    \/ \E s \in Sessions \ {1}, p \in ProposalIds : ProposalCancel(s, p)
    \/ \E c \in Suspended, outcome \in DbOutcomes :
        \/ TokenPlaceResume(c, outcome)
        \/ TokenMoveResume(c, outcome)
        \/ ProposalCreateDbDelete(c, outcome)
        \/ ProposalCreateDbInsert(c, outcome)
        \/ ProposalDbDeleteById(c, outcome)
    \/ \E c \in Suspended :
        \/ ProposalCreateAfterDelete(c)
        \/ ProposalCreateAfterInsert(c)
        \/ ProposalAfterDeleteById(c)

SpecDecide == Init /\ [][DecideNext]_vars

\* SpecVis: the dm shows, hides, rewrites and deletes faction stats with every
\* kind of is_visible value while the player asks for snapshots
VisNext ==
    \/ TableSessionNext
    \/ \E s \in Sessions : RequestTokens(s)
    \/ \E faction_name \in FactionNames, visible \in IsVisibleInputs :
            FactionStatsUpdate(1, faction_name, visible, Absent)
    \/ \E factionName \in FactionNames : FactionStatsDelete(1, factionName)
    \/ \E c \in Suspended, outcome \in DbOutcomes :
        \/ FactionStatsUpdateResume(c, outcome)
        \/ FactionStatsDeleteResume(c, outcome)

SpecVis == Init /\ [][VisNext]_vars

\* ------------------------------------------------------------------ properties

TokenOps == {"token:place", "token:move", "token:update", "token:remove"}

PlayerProposalOps ==
    {"move_proposal:create", "move_proposal:update", "move_proposal:cancel"}

\* the step resumes the suspended handler c and ends it
Ends(c) == c \in DOMAIN inflight /\ inflight' = Resumed(inflight, c)

\* the events of a sequence of emissions that reach socket s
EventsTo(emitted, s) == SelectSeq(emitted, LAMBDA e : e.to = s)

\* the id of the token an event is about
TokenOf(e) == IF e.ev = "token:moved" THEN e.arg.tokenId ELSE e.arg.id

\* C1: token:place, token:move, token:update and token:remove sent by a socket
\* that is not an authenticated dm leave tokens and tokenIdCounter as they
\* were, emit nothing to any other socket and emit exactly one error to the
\* sender.
C1_TokenActionsDenied ==
    [][\A s \in Sessions, op \in TokenOps :
        (/\ lastAct'.op = op
         /\ lastAct'.sid = s
         /\ ~(session[s].isAuthenticated /\ session[s].userRole = "dm"))
        => /\ tokens' = tokens
           /\ tokenIdCounter' = tokenIdCounter
           /\ out' = <<Emit(s, "error", op)>>]_vars

\* a player has just been refused a token:place while a token is on the map
C1_Witness ==
    \E s \in Sessions :
        /\ lastAct = Act("token:place", s, 0, "denied")
        /\ session[s].isAuthenticated
        /\ session[s].userRole = "player"
        /\ Len(tokens) > 0
        /\ out = <<Emit(s, "error", "token:place")>>

\* C2: a socket is the dm (isDM) only if it has sent authenticate with role dm
\* and the DM password.
C2_DmPresentedPassword ==
    \A s \in Sessions : isDM(s) => presented[s]

\* C3: move_proposal:create, move_proposal:update and move_proposal:cancel sent
\* by a socket whose role is not player (the dm, or a socket that is not
\* signed in) leave moveProposals and the table as they were, start no
\* handler, and emit one error, to the sender only.
C3_ProposalActionsDenied ==
    [][\A s \in Sessions, op \in PlayerProposalOps :
        (/\ lastAct'.op = op
         /\ lastAct'.sid = s
         /\ session[s].userRole # "player")
        => /\ moveProposals' = moveProposals
           /\ dbProposals' = dbProposals
           /\ inflight' = inflight
           /\ out' = <<Emit(s, "error", op)>>]_vars

\* the dm has just been refused a move_proposal:cancel while a proposal is
\* pending
C3_Witness ==
    \E s \in Sessions :
        /\ lastAct = Act("move_proposal:cancel", s, 0, "denied")
        /\ session[s].isAuthenticated
        /\ session[s].userRole = "dm"
        /\ Len(moveProposals) > 0
        /\ out = <<Emit(s, "error", "move_proposal:cancel")>>

\* C4: moveProposals holds at most one proposal per token_id.
C4_OneProposalPerToken ==
    \A i, j \in 1..Len(moveProposals) :
        moveProposals[i].token_id = moveProposals[j].token_id => i = j

\* C5: a token:placed, token:moved or token:updated event emitted to a player
\* is never about a token that tokens holds with visible_to_players false.
C5_HiddenTokenNotSentToPlayers ==
    \A i \in DOMAIN out :
        (/\ out[i].ev \in {"token:placed", "token:moved", "token:updated"}
         /\ session[out[i].to].userRole = "player")
        => \A k \in 1..Len(tokens) :
              tokens[k].id = TokenOf(out[i]) => tokens[k].visible_to_players

\* C6: the token:update that turned visible_to_players of a token from true to
\* false emits, when it resumes, token:removed with the id of the token and no
\* token:updated to every authenticated player, and token:updated with the
\* hidden token to every dm.
C6_HidingUpdateBroadcast ==
    [][\A c \in DOMAIN inflight :
        (c.op = "token:update" /\ c.hides /\ Ends(c))
        => \A s \in Sessions :
              /\ (session[s].isAuthenticated /\ session[s].userRole = "player")
                 => EventsTo(out', s) = <<Emit(s, "token:removed", c.id)>>
              /\ (session[s].isAuthenticated /\ session[s].userRole = "dm")
                 => /\ Len(EventsTo(out', s)) = 1
                    /\ EventsTo(out', s)[1].ev = "token:updated"
                    /\ IsDefined(EventsTo(out', s)[1].arg)
                    /\ EventsTo(out', s)[1].arg.id = c.id
                    /\ EventsTo(out', s)[1].arg.visible_to_players = FALSE]_vars

\* C7: token:removed and the move proposal events are emitted to authenticated
\* sockets only.
C7_OnlyAuthenticatedReceive ==
    \A i \in DOMAIN out :
        out[i].ev \in {"token:removed", "faction_stats:deleted",
                       "move_proposal:created", "move_proposal:updated",
                       "move_proposal:approved", "move_proposal:rejected",
                       "move_proposals:cleared", "movable_factions:updated"}
        => session[out[i].to].isAuthenticated

\* C8: a move_proposal:approve of an existing proposal whose writes to the
\* store do not throw sends no error: unless the store threw, no resumption of
\* the handler emits error.
C8_ApproveWithoutError ==
    (lastAct.op = "move_proposal:approve" /\ lastAct.sid = 0 /\ lastAct.kind # "failed")
    => \A i \in DOMAIN out : out[i].ev # "error"

\* C9: move_proposal:approve sent by the dm with an id that no proposal of
\* moveProposals has emits one error, to that dm only, leaves tokens and
\* moveProposals as they were, starts no handler, and so broadcasts neither
\* token:moved nor move_proposal:approved.
C9_ApproveUnknownProposal ==
    [][\A s \in Sessions, p \in ProposalIds :
        (/\ lastAct'.op = "move_proposal:approve"
         /\ lastAct'.sid = s
         /\ lastAct'.arg = p
         /\ session[s].isAuthenticated /\ session[s].userRole = "dm"
         /\ \A i \in 1..Len(moveProposals) : moveProposals[i].id # p)
        => /\ out' = <<Emit(s, "error", "Proposal not found")>>
           /\ tokens' = tokens
           /\ moveProposals' = moveProposals
           /\ dbProposals' = dbProposals
           /\ inflight' = inflight]_vars

\* the dm has just approved an id no proposal has, while a token is on the map
\* and another proposal is pending
C9_Witness ==
    \E s \in Sessions, p \in ProposalIds :
        /\ lastAct = Act("move_proposal:approve", s, p, "notfound")
        /\ Len(tokens) > 0
        /\ Len(moveProposals) > 0
        /\ \A i \in 1..Len(moveProposals) : moveProposals[i].id # p
        /\ out = <<Emit(s, "error", "Proposal not found")>>

PendingOn(c, id) ==
    \/ c.op = "token:move" /\ c.tokenId = id
    \/ c.op = "token:update" /\ c.id = id

\* C11: the events of a mutation of a token are emitted before the next
\* mutation of that token is applied: no token:move or token:update writes a
\* token while a handler that wrote the same token is still suspended before
\* its broadcast.
C11_EventsBeforeNextMutation ==
    [][\A id \in TokenIds :
        (/\ lastAct'.op \in {"token:move", "token:update"}
         /\ lastAct'.kind = "start"
         /\ lastAct'.arg = id)
        => \A c \in DOMAIN inflight : ~PendingOn(c, id)]_vars

FactionOps == {"faction_stats:update", "faction_stats:delete", "movable_factions:update"}

ProposalOps == {"move_proposal:create", "move_proposal:update", "move_proposal:approve",
                "move_proposal:reject", "move_proposal:cancel", "move_proposals:clear_all"}

NoError(emitted) == \A i \in DOMAIN emitted : emitted[i].ev # "error"

Receives(emitted, s, ev) == \E i \in DOMAIN emitted : emitted[i].to = s /\ emitted[i].ev = ev

UniqueNames(stats) ==
    \A i, j \in 1..Len(stats) : stats[i].faction_name = stats[j].faction_name => i = j

\* the names and ids of the records, in order
NamesOf(stats) == [i \in 1..Len(stats) |-> <<stats[i].id, stats[i].faction_name>>]

\* C14: factionStats holds at most one record per faction_name after every
\* step; a faction_stats:update either keeps the records' names and ids as
\* they are (it merged into the record of that name) or appends exactly one
\* record, whose name no record had.
C14_OneRecordPerFaction ==
    [][/\ UniqueNames(factionStats')
       /\ (lastAct'.op = "faction_stats:update" /\ lastAct'.kind \in {"merged", "created"})
          => \/ NamesOf(factionStats') = NamesOf(factionStats)
             \/ /\ Len(factionStats') = Len(factionStats) + 1
                /\ SubSeq(NamesOf(factionStats'), 1, Len(factionStats)) = NamesOf(factionStats)
                /\ \A i \in 1..Len(factionStats) :
                      factionStats[i].faction_name
                          # factionStats'[Len(factionStats')].faction_name]_vars

\* an update has just merged into one of two records while another update is
\* still suspended
C14_Witness ==
    /\ lastAct.op = "faction_stats:update"
    /\ lastAct.kind = "merged"
    /\ Len(factionStats) = 2
    /\ BagCardinality(inflight) = 2
    /\ \E i \in 1..2 : factionStats[i].current_hp = "85"

\* C15: no token:place gives a token an id that a token had before, the
\* tokens that have been removed included.
C15_IdNeverReused ==
    [][(lastAct'.op = "token:place" /\ lastAct'.kind = "start")
        => tokens'[Len(tokens')].id \notin assigned]_vars

\* socket s is an authenticated player
IsPlayer(s) == session[s].isAuthenticated /\ session[s].userRole = "player"

\* the elements of a sequence
Range(seq) == {seq[i] : i \in DOMAIN seq}

\* C16: a token:place with no visible_to_players field appends the token to
\* tokens with visible_to_players true; when the handler resumes, token:placed
\* with this token is emitted to every authenticated player; and every
\* tokens:load a player is sent holds every token of tokens whose
\* visible_to_players is true, so also this token as long as it is there
\* unmodified.
C16_DefaultVisibleToken ==
    [][/\ (lastAct'.op = "token:place" /\ lastAct'.kind = "start")
          => \E c \in DOMAIN inflight' :
                /\ c.op = "token:place"
                /\ c.token = tokens'[Len(tokens')]
                /\ Len(tokens') = Len(tokens) + 1
                /\ c.visible = Absent => tokens'[Len(tokens')].visible_to_players = TRUE
       /\ \A c \in DOMAIN inflight :
             (c.op = "token:place" /\ c.visible = Absent /\ Ends(c))
             => \A s \in Sessions :
                   IsPlayer(s) => \E i \in DOMAIN out' :
                                     out'[i] = Emit(s, "token:placed", c.token)
       /\ \A s \in Sessions :
             (/\ lastAct'.op \in {"set_role", "request_tokens"}
              /\ lastAct'.sid = s
              /\ lastAct'.kind = "done"
              /\ session'[s].userRole = "player")
             => \E i \in DOMAIN out' :
                   /\ out'[i].to = s
                   /\ out'[i].ev = "tokens:load"
                   /\ \A k \in 1..Len(tokens) :
                         tokens[k].visible_to_players = TRUE
                         => tokens[k] \in Range(out'[i].arg)]_vars

\* a player has just been sent a snapshot that holds a token placed with no
\* visible_to_players field and leaves out a hidden one
C16_Witness ==
    \E s \in Sessions :
        /\ lastAct = Act("request_tokens", s, 0, "done")
        /\ IsPlayer(s)
        /\ Len(tokens) = 2
        /\ tokens[1] = NewToken(1, <<0, 0>>, Absent, Absent)
        /\ tokens[2].visible_to_players = FALSE
        /\ out[1] = Emit(s, "tokens:load", <<tokens[1]>>)

\* C17: a faction_stats:update that creates a record from a request with no
\* is_visible field appends it to factionStats with is_visible false; when the
\* handler resumes, no player is sent faction_stats:updated; and no
\* faction_stats:load a player is sent holds a record of factionStats whose
\* is_visible is false, so not this record as long as it is there unmodified.
C17_DefaultHiddenFaction ==
    [][/\ (lastAct'.op = "faction_stats:update" /\ lastAct'.kind = "created")
          => \E c \in DOMAIN inflight' :
                /\ c.op = "faction_stats:update"
                /\ c.created
                /\ c.updatedFaction = factionStats'[Len(factionStats')]
                /\ Len(factionStats') = Len(factionStats) + 1
                /\ c.visible = Absent
                   => factionStats'[Len(factionStats')].is_visible = "false"
       /\ \A c \in DOMAIN inflight :
             (/\ c.op = "faction_stats:update"
              /\ c.created
              /\ c.visible = Absent
              /\ Ends(c))
             => \A s \in Sessions :
                   IsPlayer(s) => ~Receives(out', s, "faction_stats:updated")
       /\ \A s \in Sessions :
             (/\ lastAct'.op \in {"set_role", "request_tokens"}
              /\ lastAct'.sid = s
              /\ lastAct'.kind = "done"
              /\ session'[s].userRole = "player")
             => \E i \in DOMAIN out' :
                   /\ out'[i].to = s
                   /\ out'[i].ev = "faction_stats:load"
                   /\ \A k \in 1..Len(factionStats) :
                         factionStats[k].is_visible = "false"
                         => factionStats[k] \notin Range(out'[i].arg)]_vars

\* a player has just been sent a snapshot that leaves out a record created
\* with no is_visible field and holds a visible one
C17_Witness ==
    \E s \in Sessions :
        /\ lastAct = Act("request_tokens", s, 0, "done")
        /\ IsPlayer(s)
        /\ Len(factionStats) = 2
        /\ factionStats[1] = NewFaction(1, "Iron", Absent, Absent)
        /\ factionStats[2].is_visible = "true"
        /\ out[2] = Emit(s, "faction_stats:load", <<factionStats[2]>>)

\* the tokens a player may see
VisibleTokens == {tokens[k] : k \in {i \in 1..Len(tokens) : tokens[i].visible_to_players # FALSE}}

\* C18, as the specification states it: the authenticate of a player is
\* answered with a tokens:load event.
C18_AuthenticateSendsTokens ==
    [][(lastAct'.op = "authenticate" /\ lastAct'.kind = "player_ok")
        => Receives(out', lastAct'.sid, "tokens:load")]_vars

\* C18: the authenticate of a player is answered with auth_result alone; the
\* player is sent tokens:load, holding exactly the tokens visible to players,
\* when it then sends set_role with role player or request_tokens.
C18_SnapshotOnSetRole ==
    [][/\ (lastAct'.op = "authenticate" /\ lastAct'.kind = "player_ok")
          => out' = <<Emit(lastAct'.sid, "auth_result", TRUE)>>
       /\ (/\ lastAct'.op \in {"set_role", "request_tokens"}
           /\ lastAct'.kind = "done"
           /\ session'[lastAct'.sid].userRole = "player")
          => /\ out'[1].to = lastAct'.sid
             /\ out'[1].ev = "tokens:load"
             /\ Range(out'[1].arg) = VisibleTokens
             /\ Len(out'[1].arg) = Cardinality(VisibleTokens)]_vars

\* a player has just authenticated while a token visible to players is on the
\* map, and has been sent auth_result only
C18_Witness ==
    \E s \in Sessions :
        /\ lastAct = Act("authenticate", s, 0, "player_ok")
        /\ IsPlayer(s)
        /\ VisibleTokens # {}
        /\ ~Receives(out, s, "tokens:load")

\* the state of the server, without the history variables
serverVars ==
    <<session, tokens, tokenIdCounter, moveProposals, dbProposals, dbProposalSeq,
      inflight, factionStats, factionStatsIdCounter, movableFactionsConfig>>

Terminates(emitted, id) ==
    \E i \in DOMAIN emitted :
        /\ emitted[i].ev \in {"move_proposal:approved", "move_proposal:rejected"}
        /\ emitted[i].arg = id

\* id is the id of a proposal of moveProposals
InCollection(id) == \E k \in 1..Len(moveProposals) : moveProposals[k].id = id

\* C20: a move_proposal:approved or move_proposal:rejected event naming an id is
\* broadcast only by a step that starts with a proposal of that id in
\* moveProposals. The store never gives an id twice and the step takes the
\* proposal out, so this is the same as: no id is named by two terminating
\* events, and none names an id that is not in the collection.
C20_TerminatedOnce ==
    [][\A id \in ProposalIds : Terminates(out', id) => InCollection(id)]_vars

\* the step is the store's run of, or the resumption of, suspended handler c
StepOf(c) ==
    /\ c \in DOMAIN inflight
    /\ \/ inflight' = Resumed(inflight, c)
       \/ /\ c.db = "sent"
          /\ \E r \in DbOutcomes :
                inflight' = Suspend(Resumed(inflight, c), [c EXCEPT !.db = r])

\* moveProposals without the proposals of this id
WithoutId(id) == SelectSeq(moveProposals, LAMBDA p : p.id # id)

\* C21: no step of a move_proposal:reject or a move_proposal:cancel changes
\* tokens, tokenIdCounter, the sessions or the faction data; the start of the
\* handler changes no collection at all, the store's run takes at most the row
\* of the given id out of the table, and the resumption leaves moveProposals
\* as it was (the delete threw) or without the proposals of the given id.
C21_RejectCancelFrame ==
    [][/\ (lastAct'.op \in {"move_proposal:reject", "move_proposal:cancel"}
           /\ lastAct'.kind = "start")
          => UNCHANGED <<session, tokens, tokenIdCounter, moveProposals, dbProposals,
                         dbProposalSeq, factionStats, factionStatsIdCounter,
                         movableFactionsConfig>>
       /\ \A c \in DOMAIN inflight :
             (c.op \in {"move_proposal:reject", "move_proposal:cancel"} /\ StepOf(c))
             => /\ UNCHANGED <<session, tokens, tokenIdCounter, dbProposalSeq,
                               factionStats, factionStatsIdCounter,
                               movableFactionsConfig>>
                /\ dbProposals' \in {dbProposals,
                                     {r \in dbProposals : r.id # c.proposal.id}}
                /\ IF Ends(c) /\ c.db # "throw"
                   THEN moveProposals' = WithoutId(c.proposal.id)
                   ELSE moveProposals' = moveProposals]_vars

\* a cancel has just taken proposal 1 out; token 1 is at its place and the
\* proposal made after it is still in the table
C21_Witness ==
    /\ lastAct = Act("move_proposal:cancel", 0, 0, "done")
    /\ out = IoEmit("move_proposal:rejected", 1)
    /\ Len(tokens) = 1
    /\ tokens[1].x = 0 /\ tokens[1].y = 0
    /\ moveProposals = <<>>
    /\ \E r \in dbProposals : r.id = 2

\* the proposals of a sequence that are for token t
ForToken(proposals, t) == SelectSeq(proposals, LAMBDA p : p.token_id = t)

\* the proposals of a sequence that are for another token than t
NotForToken(proposals, t) == SelectSeq(proposals, LAMBDA p : p.token_id # t)

\* C22: when a move_proposal:create whose delete and insert succeeded in the
\* store resumes and ends while moveProposals holds a proposal for its token,
\* moveProposals afterwards holds exactly one proposal for that token, the one
\* of this request, and the proposals for the other tokens as they were.
C22_RecreateReplaces ==
    [][\A c \in DOMAIN inflight :
        (/\ c.op = "move_proposal:create"
         /\ c.phase = "insert" /\ c.db = "ok"
         /\ Ends(c)
         /\ ProposalIndex(c.newProposal.token_id) # 0)
        => /\ ForToken(moveProposals', c.newProposal.token_id) = <<c.newProposal>>
           /\ NotForToken(moveProposals', c.newProposal.token_id)
                 = NotForToken(moveProposals, c.newProposal.token_id)]_vars

\* proposal q is proposal p with other proposed_x, proposed_y at most
SameButProposed(p, q) ==
    /\ q.id = p.id
    /\ q.token_id = p.token_id
    /\ q.original_x = p.original_x
    /\ q.original_y = p.original_y
    /\ q.proposed_by_session = p.proposed_by_session

\* the step is move_proposal:update sent by player s
UpdateSentBy(s) ==
    /\ lastAct'.op = "move_proposal:update"
    /\ lastAct'.sid = s
    /\ session[s].userRole = "player"

\* the move_proposal:update sent by a player runs as C23 says up to its await
C23_UpdateStart ==
    \A s \in Sessions :
        UpdateSentBy(s)
        => IF ProposalIndex(lastAct'.arg) = 0
           THEN /\ out' = <<Emit(s, "error", "No existing proposal found")>>
                /\ UNCHANGED <<moveProposals, dbProposals, inflight>>
           ELSE /\ out' = <<>>
                /\ Len(moveProposals') = Len(moveProposals)
                /\ \A k \in 1..Len(moveProposals) :
                      IF k = ProposalIndex(lastAct'.arg)
                      THEN SameButProposed(moveProposals[k], moveProposals'[k])
                      ELSE moveProposals'[k] = moveProposals[k]

SameButXY(t, u) ==
    /\ u.id = t.id
    /\ u.name = t.name
    /\ u.visible_to_players = t.visible_to_players

\* C24: a token:move or token:update sent by the dm with an id no token has
\* leaves tokens, tokenIdCounter and the suspended handlers as they were and
\* emits nothing, so no event and no error; a token:move with the id of a
\* token changes the x and y of that token only, at once, and its resumption
\* after the await changes no token.
C24_UnknownTokenIgnored ==
    [][/\ \A s \in Sessions :
             (/\ lastAct'.op \in {"token:move", "token:update"}
              /\ lastAct'.sid = s
              /\ session[s].isAuthenticated /\ session[s].userRole = "dm")
             => IF \A k \in 1..Len(tokens) : tokens[k].id # lastAct'.arg
                THEN /\ out' = <<>>
                     /\ UNCHANGED <<tokens, tokenIdCounter, inflight,
                                    moveProposals, session>>
                ELSE lastAct'.op = "token:move"
                     => /\ Len(tokens') = Len(tokens)
                        /\ \A k \in 1..Len(tokens) :
                              IF tokens[k].id = lastAct'.arg
                              THEN SameButXY(tokens[k], tokens'[k])
                              ELSE tokens'[k] = tokens[k]
       /\ \A c \in DOMAIN inflight :
             (c.op = "token:move" /\ Ends(c)) => tokens' = tokens]_vars

\* the dm has just sent token:move for token 2 while only token 1 is there
C24_Witness ==
    \E s \in Sessions :
        /\ lastAct = Act("token:move", s, 2, "unknown")
        /\ Len(tokens) = 1
        /\ tokens[1].id = 1
        /\ out = <<>>

\* C25: no step turns the isAuthenticated of a socket from true to false, and
\* an authenticate answered with auth_result success false leaves the
\* isAuthenticated and the userRole of the socket as they were.
C25_AuthenticationKept ==
    [][\A s \in Sessions :
        /\ session[s].isAuthenticated => session'[s].isAuthenticated
        /\ (/\ lastAct'.op = "authenticate"
            /\ lastAct'.sid = s
            /\ out' = <<Emit(s, "auth_result", FALSE)>>)
           => session'[s] = session[s]]_vars

\* a player has just failed to authenticate as the dm and is still a player
C25_Witness ==
    \E s \in Sessions :
        /\ lastAct = Act("authenticate", s, 0, "failed")
        /\ out = <<Emit(s, "auth_result", FALSE)>>
        /\ session[s].isAuthenticated
        /\ session[s].userRole = "player"

\* C26: a move_proposal:cancel sent by a player removes no proposal whose
\* proposed_by_session is another socket.
C26_CancelOwnOnly ==
    [][\A c \in DOMAIN inflight :
        (c.op = "move_proposal:cancel" /\ Ends(c))
        => \A k \in 1..Len(moveProposals) :
              (/\ moveProposals[k].id = c.proposal.id
               /\ moveProposals[k].proposed_by_session # c.sid)
              => \E j \in 1..Len(moveProposals') : moveProposals'[j] = moveProposals[k]]_vars

\* C27: when a faction_stats:update resumes and runs its broadcast, a player is
\* sent faction_stats:updated exactly when the record the handler holds passes
\* the filter of the faction_stats:load snapshot for a player.
C27_BroadcastAgreesWithFilter ==
    [][\A c \in DOMAIN inflight :
        (c.op = "faction_stats:update" /\ Ends(c) /\ lastAct'.kind # "failed")
        => \A s \in Sessions :
              IsPlayer(s)
              => (Receives(out', s, "faction_stats:updated")
                  <=> StrictlyTrue(c.updatedFaction))]_vars

\* C28: every token:moved event just emitted carries the x and y that tokens
\* holds for the token it names.
C28_MovedCarriesHeldXY ==
    \A i \in DOMAIN out :
        out[i].ev = "token:moved"
        => \A k \in 1..Len(tokens) :
              tokens[k].id = out[i].arg.tokenId
              => tokens[k].x = out[i].arg.x /\ tokens[k].y = out[i].arg.y

\* C29: when a move_proposal:approve has just ended, after its broadcast or in
\* its catch block, either the token of the proposal is at the proposed
\* coordinates and no proposal of moveProposals has the id, or the token is
\* where it was when the approve was sent and the proposal is still there.
C29_ApproveAllOrNothing ==
    [][\A c \in DOMAIN inflight :
        (c.op = "move_proposal:approve" /\ Ends(c))
        => \A k \in 1..Len(tokens') :
              tokens'[k].id = c.proposal.token_id
              => \/ /\ tokens'[k].x = c.proposal.proposed_x
                    /\ tokens'[k].y = c.proposal.proposed_y
                    /\ \A j \in 1..Len(moveProposals') :
                          moveProposals'[j].id # c.proposal.id
                 \/ /\ tokens'[k].x = c.proposal.original_x
                    /\ tokens'[k].y = c.proposal.original_y
                    /\ \E j \in 1..Len(moveProposals') :
                          moveProposals'[j].id = c.proposal.id]_vars

\* C30: once no handler is suspended, no player holds a faction that
\* factionStats has with an is_visible that is not true.
C30_PlayerViewFiltered ==
    inflight = EmptyBag
    => \A s \in Sessions :
          IsPlayer(s)
          => \A k \in 1..Len(factionStats) :
                factionStats[k].faction_name \in held[s] => StrictlyTrue(factionStats[k])

====
